---- MODULE Spec2Model ----
(***************************************************************************)
(* gwtm (Git WorkTree Manager): a model of src/src/main.py.                *)
(*                                                                         *)
(* One run of the command line tool is a process: main() parses a verb,    *)
(* builds the manager and calls one handler.  A handler is a straight line *)
(* of blocking invocations of git; pc is the handler's position, and each  *)
(* action is one invocation together with the code that consumes its       *)
(* result up to the next invocation.  What git answers is the environment: *)
(* it is drawn when the invocation is made.  The filesystem (the ignore    *)
(* file, the directories the tool made) outlives the process.              *)
(*                                                                         *)
(* Text is kept as text: the code's startswith/replace/strip/split/in are  *)
(* computed character by character on strings.  Python's None and ''       *)
(* are both "" here, because the code only ever tests these arguments for  *)
(* truthiness.                                                             *)
(***************************************************************************)
EXTENDS Integers, Sequences, FiniteSets, TLC

(***************************************************************************)
(* Bounds of the model.                                                    *)
(***************************************************************************)
MaxRuns == 2      \* runs of the tool in one behaviour
MaxBlocks == 2    \* linked worktrees in one porcelain listing
MaxLines == 2     \* lines in one plain listing

(***************************************************************************)
(* Python string primitives used by the code.                              *)
(***************************************************************************)
Char(s, i) == SubSeq(s, i, i)

\* str.startswith
StartsWith(s, p) == Len(s) >= Len(p) /\ SubSeq(s, 1, Len(p)) = p

\* str.endswith
EndsWith(s, p) == Len(s) >= Len(p) /\ SubSeq(s, Len(s) - Len(p) + 1, Len(s)) = p

\* `sub in s`
RECURSIVE Contains(_, _)
Contains(s, sub) ==
    IF Len(s) < Len(sub) THEN FALSE
    ELSE IF StartsWith(s, sub) THEN TRUE
    ELSE Contains(Tail(s), sub)

\* str.replace(old, new): every non-overlapping occurrence, left to right
RECURSIVE Replace(_, _, _)
Replace(s, old, new) ==
    IF Len(s) = 0 THEN ""
    ELSE IF StartsWith(s, old)
         THEN new \o Replace(SubSeq(s, Len(old) + 1, Len(s)), old, new)
         ELSE Char(s, 1) \o Replace(Tail(s), old, new)

IsSpace(c) == c \in {" ", "\n", "\t", "\r"}

RECURSIVE LStrip(_)
LStrip(s) == IF Len(s) > 0 /\ IsSpace(Char(s, 1)) THEN LStrip(Tail(s)) ELSE s

RECURSIVE RStrip(_)
RStrip(s) ==
    IF Len(s) > 0 /\ IsSpace(Char(s, Len(s)))
    THEN RStrip(SubSeq(s, 1, Len(s) - 1)) ELSE s

\* str.strip()
Strip(s) == RStrip(LStrip(s))

\* str.strip(chars)
RECURSIVE StripChars(_, _)
StripChars(s, chars) ==
    IF Len(s) > 0 /\ Contains(chars, Char(s, 1)) THEN StripChars(Tail(s), chars)
    ELSE IF Len(s) > 0 /\ Contains(chars, Char(s, Len(s)))
         THEN StripChars(SubSeq(s, 1, Len(s) - 1), chars)
         ELSE s

\* index of the first occurrence of the one-character sep in s, 0 if none
RECURSIVE Find(_, _, _)
Find(s, sep, i) ==
    IF i > Len(s) THEN 0
    ELSE IF Char(s, i) = sep THEN i ELSE Find(s, sep, i + 1)

\* str.split(sep) for a one-character sep: always at least one piece
RECURSIVE Split(_, _)
Split(s, sep) ==
    LET i == Find(s, sep, 1) IN
    IF i = 0 THEN <<s>>
    ELSE <<SubSeq(s, 1, i - 1)>> \o Split(SubSeq(s, i + 1, Len(s)), sep)

\* str.split(): runs of whitespace separate, no empty pieces
RECURSIVE SplitWs(_)
SplitWs(s) ==
    LET t == LStrip(s) IN
    IF Len(t) = 0 THEN <<>>
    ELSE LET RECURSIVE WordEnd(_)
             WordEnd(i) == IF i > Len(t) \/ IsSpace(Char(t, i)) THEN i - 1
                           ELSE WordEnd(i + 1)
             e == WordEnd(1)
         IN <<SubSeq(t, 1, e)>> \o SplitWs(SubSeq(t, e + 1, Len(t)))

\* sep.join(pieces)
RECURSIVE JoinWith(_, _)
JoinWith(pieces, sep) ==
    IF Len(pieces) = 0 THEN ""
    ELSE IF Len(pieces) = 1 THEN pieces[1]
    ELSE pieces[1] \o sep \o JoinWith(Tail(pieces), sep)

(***************************************************************************)
(* os.path, POSIX flavour.                                                 *)
(***************************************************************************)
Cwd == "/r"          \* the process's working directory: the main checkout

isabs(p) == StartsWith(p, "/")

join(a, b) ==
    IF StartsWith(b, "/") THEN b
    ELSE IF a = "" \/ EndsWith(a, "/") THEN a \o b
    ELSE a \o "/" \o b

\* the loop of posixpath.normpath over the components
RECURSIVE NormComps(_, _, _)
NormComps(comps, new_comps, rooted) ==
    IF Len(comps) = 0 THEN new_comps
    ELSE LET comp == Head(comps)
             n == Len(new_comps)
         IN IF comp \in {"", "."} THEN NormComps(Tail(comps), new_comps, rooted)
            ELSE IF \/ comp # ".."
                    \/ (~rooted /\ n = 0)
                    \/ (n > 0 /\ new_comps[n] = "..")
                 THEN NormComps(Tail(comps), Append(new_comps, comp), rooted)
            ELSE IF n > 0
                 THEN NormComps(Tail(comps), SubSeq(new_comps, 1, n - 1), rooted)
            ELSE NormComps(Tail(comps), new_comps, rooted)

normpath(p) ==
    IF p = "" THEN "."
    ELSE LET slashes == IF ~StartsWith(p, "/") THEN ""
                        ELSE IF StartsWith(p, "//") /\ ~StartsWith(p, "///")
                             THEN "//" ELSE "/"
             body == JoinWith(NormComps(Split(p, "/"), <<>>, slashes # ""), "/")
             out == slashes \o body
         IN IF out = "" THEN "." ELSE out

abspath(p) == normpath(IF isabs(p) THEN p ELSE join(Cwd, p))

\* os.path.dirname
RECURSIVE RFind(_, _, _)
RFind(s, sep, i) ==
    IF i = 0 THEN 0 ELSE IF Char(s, i) = sep THEN i ELSE RFind(s, sep, i - 1)

RECURSIVE RStripSlash(_)
RStripSlash(s) ==
    IF EndsWith(s, "/") THEN RStripSlash(SubSeq(s, 1, Len(s) - 1)) ELSE s

dirname(p) ==
    LET head == SubSeq(p, 1, RFind(p, "/", Len(p)))
    IN IF RStripSlash(head) = "" THEN head ELSE RStripSlash(head)

\* [x for x in p.split('/') if x]
NonEmpty(pieces) == SelectSeq(pieces, LAMBDA x : x # "")

RECURSIVE CommonPrefixLen(_, _)
CommonPrefixLen(a, b) ==
    IF Len(a) = 0 \/ Len(b) = 0 \/ Head(a) # Head(b) THEN 0
    ELSE 1 + CommonPrefixLen(Tail(a), Tail(b))

\* os.path.relpath(p, start)
relpath(p, start) ==
    LET start_list == NonEmpty(Split(abspath(start), "/"))
        path_list == NonEmpty(Split(abspath(p), "/"))
        i == CommonPrefixLen(start_list, path_list)
        rel_list == [k \in 1..(Len(start_list) - i) |-> ".."]
                    \o SubSeq(path_list, i + 1, Len(path_list))
    IN IF Len(rel_list) = 0 THEN "." ELSE JoinWith(rel_list, "/")

\* the paths that exist before the tool runs: the main checkout and the
\* directories of the linked worktrees
ExistingPaths == {"/r", "/r/w", "/r/worktree w", "/r/v", "/l"}

\* symbolic links: /l is another name of the directory /r/w.  os.path.exists
\* follows them, os.path.abspath does not look at the file system at all.
Symlinks == "/l" :> "/r/w"

(***************************************************************************)
(* What git can answer.  A result is what subprocess.run returns: the exit *)
(* status and the captured standard output and standard error.             *)
(***************************************************************************)
Result(rc, out) ==
    [rc |-> rc, stdout |-> out,
     stderr |-> IF rc = 0 THEN "" ELSE "fatal: git failed\n"]

\* git rev-parse --is-inside-work-tree
RepoCheckResults == {Result(0, "true\n"), Result(128, "")}

\* The worktrees git has registered: the main checkout first, then linked
\* worktrees at distinct paths, each on a branch or detached (branch "").
MainBlock == [path |-> "/r", branch |-> "m"]
LinkedPaths == {"/r/w", "/r/worktree w", "/r/v"}
LinkedBranches == {"", "f"}
LinkedBlocks == [path : LinkedPaths, branch : LinkedBranches]

RECURSIVE LinkedSeqs(_)
LinkedSeqs(n) ==
    IF n = 0 THEN {<<>>}
    ELSE LET prev == LinkedSeqs(n - 1)
         IN prev \cup
            { Append(x[1], x[2]) :
                x \in { y \in prev \X LinkedBlocks :
                          /\ Len(y[1]) = n - 1
                          /\ \A i \in 1..Len(y[1]) : y[1][i].path # y[2].path } }

Registries == { <<MainBlock>> \o l : l \in LinkedSeqs(MaxBlocks) }

\* git worktree list --porcelain: one block per worktree, a blank line after
PorcelainBlock(b) ==
    "worktree " \o b.path \o "\n" \o "HEAD 0a\n" \o
    (IF b.branch = "" THEN "detached" ELSE "branch refs/heads/" \o b.branch)
    \o "\n\n"

RECURSIVE Porcelain(_)
Porcelain(reg) ==
    IF Len(reg) = 0 THEN ""
    ELSE PorcelainBlock(Head(reg)) \o Porcelain(Tail(reg))

\* git status --porcelain inside the worktree
StatusResults == {Result(0, ""), Result(0, " M a\n"), Result(128, "")}

\* git branch -a: the branches that exist, sorted, the current one starred
BranchOrder == <<"f", "fx", "m">>
BranchSets == {{"m"}, {"fx", "m"}, {"f", "m"}, {"f", "fx", "m"}}

RECURSIVE BranchLines(_, _)
BranchLines(names, i) ==
    IF i > Len(BranchOrder) THEN ""
    ELSE (IF BranchOrder[i] \in names
          THEN (IF BranchOrder[i] = "m" THEN "* " ELSE "  ")
               \o BranchOrder[i] \o "\n"
          ELSE "")
         \o BranchLines(names, i + 1)

\* git branch --show-current: empty on a detached HEAD
ShowCurrentResults ==
    {Result(0, "m\n"), Result(0, "f\n"), Result(0, ""), Result(128, "")}

\* git fetch origin <target>; subprocess.run itself may raise
FetchResults ==
    { [rc |-> 0, raised |-> FALSE],
      [rc |-> 128, raised |-> FALSE],
      [rc |-> -1, raised |-> TRUE] }

\* git checkout <target>, output not captured
CheckoutResults == {Result(0, ""), Result(1, "")}

\* git merge <branch>
MergeResults ==
    { Result(0, "Already up to date.\n"),
      Result(0, "Updating 0a..1b\nFast-forward\n"),
      Result(1, "CONFLICT (content): Merge conflict in a\n") }

\* git log -1 --stat
LogResults == {Result(0, "commit 1b\n")}

(***************************************************************************)
(* State.                                                                  *)
(***************************************************************************)
VARIABLES
    pc,               \* position of the process: "idle" before the first
                      \* run, a handler's step while running, "done" after exit
    runs,             \* runs of the tool started so far
    args,             \* the parsed command line (argparse namespace)
    config,           \* the loaded configuration
    calls,            \* git invocations of this run, in order
    results,          \* what each invocation returned, by the code's local name
    printed,          \* lines printed by this run, in order
    exitCode,         \* process exit status, -1 while running
    abs_path,         \* merge_from_worktree / switch / open: abs_path
    worktree_branch,  \* merge_from_worktree: worktree_branch ("" is None)
    target_branch,    \* merge_from_worktree: target_branch ("" is None)
    path,             \* add_worktree: path after resolution
    git_worktrees,    \* the worktrees git had registered when this run listed them
    git_branches,     \* the branches that existed when this run listed them
    gitignore,        \* <repo>/.gitignore: [exists, content]
    dirs,             \* directories made by os.makedirs
    ensured,          \* history: the relative location of every completed
                      \* _ensure_worktree_location, in order
    config_files,     \* the configuration files that exist: location -> the
                      \* keys the file sets
    files_read        \* the files _load_config read in this run, in order

vars == <<pc, runs, args, config, calls, results, printed, exitCode, abs_path,
          worktree_branch, target_branch, path, git_worktrees, git_branches,
          gitignore, dirs, ensured, config_files, files_read>>

\* os.path.exists
exists(p) == p \in ExistingPaths \cup dirs

procVars == <<runs, args, config, files_read>>
mergeLocals == <<abs_path, worktree_branch, target_branch>>
gitTruth == <<git_worktrees, git_branches>>
fsVars == <<gitignore, dirs, ensured, config_files>>

\* lines 40-47: the built-in defaults; the keys of the two sections are
\* distinct, so the sections are kept in one record
DefaultConfig ==
    [ide |-> "xcode", worktree_location |-> ".gwtm/worktrees",
     xcode |-> "/Applications/Xcode.app",
     androidstudio |-> "/Applications/Android Studio.app"]

Home == "/h"         \* the user's home directory

\* lines 50-54: the candidate locations, in order of precedence
Locations(config_path) ==
    <<config_path, join(Cwd, ".gwtmrc"), join(Home, ".gwtmrc")>>

\* config.read(location): the keys the file sets replace the values so far
ReadFile(cfg, file) ==
    [k \in DOMAIN cfg |-> IF k \in DOMAIN file THEN file[k] ELSE cfg[k]]

\* faulty variant: no break, every location that exists is read in turn
LoadConfigAll(config_path, files) ==
    LET locations == Locations(config_path)
        hit(i) == locations[i] # "" /\ locations[i] \in DOMAIN files
        RECURSIVE ReadFrom(_, _)
        ReadFrom(i, acc) ==
            IF i > Len(locations) THEN acc
            ELSE IF hit(i)
            THEN ReadFrom(i + 1,
                          [config |-> ReadFile(acc.config, files[locations[i]]),
                           read |-> Append(acc.read, locations[i])])
            ELSE ReadFrom(i + 1, acc)
    IN ReadFrom(1, [config |-> DefaultConfig, read |-> <<>>])

\* lines 36-62: the configuration, and the files that were read for it
LoadConfig(config_path, files) ==
    LET locations == Locations(config_path)
        hit(i) == locations[i] # "" /\ locations[i] \in DOMAIN files
        RECURSIVE ReadFrom(_)
        ReadFrom(i) ==
            IF i > Len(locations)
            THEN [config |-> DefaultConfig, read |-> <<>>]
            ELSE IF hit(i)
            THEN [config |-> ReadFile(DefaultConfig, files[locations[i]]),
                  read |-> <<locations[i]>>]
            ELSE ReadFrom(i + 1)
    IN ReadFrom(1)

\* what a configuration file may set
FileContents ==
    { <<>>,
      [ide |-> "androidstudio"],
      [worktree_location |-> "/t", ide |-> "VSCode"],
      [worktree_location |-> "wt", xcode |-> "/X.app",
       androidstudio |-> "/A.app"] }

\* where a configuration file may be: the path given with --config, the
\* working directory, the home directory
FileLocations == {"/c", join(Cwd, ".gwtmrc"), join(Home, ".gwtmrc")}

FileSystems == UNION { [S -> FileContents] : S \in SUBSET FileLocations }

\* the one file of the runs that follow whole handlers
InstalledFiles == "/c" :> [worktree_location |-> "/t", ide |-> "VSCode"]

\* --config: absent or the installed file; and also a file that is not there
ConfigPaths == {"", "/c"}
AnyConfigPaths == {"", "/c", "/x"}

NoArgs == [command |-> "", path |-> "", branch |-> "", new_branch |-> FALSE,
           no_prune |-> FALSE, ide |-> "", target_branch |-> "",
           config |-> ""]

MergeArgs ==
    { [NoArgs EXCEPT !.command = "merge", !.path = p, !.target_branch = t] :
        p \in {"/r/w", "/l", "/r/worktree w", "/r/x"},
        t \in {"", "m", "f"} }
    \cup { [NoArgs EXCEPT !.command = "merge", !.path = "./w/",
                          !.target_branch = "m"] }

AddArgs ==
    { [NoArgs EXCEPT !.command = "add", !.path = p, !.branch = b,
                     !.new_branch = n] :
        p \in {"", "w", "/r/v"}, b \in {"", "f"}, n \in BOOLEAN }

RemoveArgs ==
    { [NoArgs EXCEPT !.command = "remove", !.path = p, !.no_prune = n] :
        p \in {"/r/w", "/r/x"}, n \in BOOLEAN }

SwitchArgs ==
    { [NoArgs EXCEPT !.command = "switch", !.path = p] : p \in {"w", "/r/x"} }

OpenArgs ==
    { [NoArgs EXCEPT !.command = "open", !.path = p, !.ide = i] :
        p \in {"w", "/r/x"}, i \in {"", "xcode"} }

CommandLines ==
    AddArgs \cup {[NoArgs EXCEPT !.command = "list"]} \cup RemoveArgs
    \cup SwitchArgs \cup OpenArgs \cup MergeArgs \cup {NoArgs}

\* before the first run
Idle ==
    /\ pc = "idle"
    /\ runs = 0
    /\ args = NoArgs
    /\ config = DefaultConfig
    /\ calls = <<>>
    /\ results = <<>>
    /\ printed = <<>>
    /\ exitCode = -1
    /\ abs_path = ""
    /\ worktree_branch = ""
    /\ target_branch = ""
    /\ path = ""
    /\ git_worktrees = <<>>
    /\ git_branches = {}
    /\ gitignore \in { [exists |-> FALSE, content |-> ""],
                       [exists |-> TRUE, content |-> "build\n.gwtm/worktrees"] }
    /\ dirs = {}
    /\ ensured = <<>>
    /\ files_read = <<>>

Init == Idle /\ config_files = InstalledFiles

(***************************************************************************)
(* Steps shared by the handlers.                                           *)
(***************************************************************************)
Call(cmd, argv) == [cmd |-> cmd, argv |-> argv]

\* _run_git: the invocation is issued and its result bound to a local
RunGit(cmd, argv, local, r) ==
    /\ calls' = Append(calls, Call(cmd, argv))
    /\ results' = (local :> r) @@ results

\* sys.exit(1) after printing msgs
Fail(msgs) ==
    /\ pc' = "done"
    /\ exitCode' = 1
    /\ printed' = printed \o msgs

\* the handler returns and main() falls off its end
Return(msgs) ==
    /\ pc' = "done"
    /\ exitCode' = 0
    /\ printed' = printed \o msgs

\* the handler goes on to its next invocation
Goto(label, msgs) ==
    /\ pc' = label
    /\ exitCode' = exitCode
    /\ printed' = printed \o msgs

\* lines 64-67 with capture_output=False: git writes on the tool's own
\* terminal, so what it says on standard error stands before the tool's
\* next message
Inherited(r) == IF r.stderr = "" THEN <<>> ELSE <<r.stderr>>

\* main(): parse the command line, build the manager (which loads the
\* configuration), dispatch on the verb
Start(config_paths) ==
    /\ pc \in {"idle", "done"}
    /\ runs < MaxRuns
    /\ \E config_path \in config_paths :
         /\ config' = LoadConfig(config_path, config_files).config
         /\ files_read' = LoadConfig(config_path, config_files).read
         /\ \E a \in CommandLines :
              /\ args' = [a EXCEPT !.config = config_path]
              /\ pc' = IF a.command = "" THEN "help" ELSE a.command
    /\ runs' = runs + 1
    /\ calls' = <<>>
    /\ results' = <<>>
    /\ printed' = <<>>
    /\ exitCode' = -1
    /\ abs_path' = ""
    /\ worktree_branch' = ""
    /\ target_branch' = ""
    /\ path' = ""
    /\ git_worktrees' = <<>>
    /\ git_branches' = {}
    /\ UNCHANGED fsVars

Main == Start(ConfigPaths)

(***************************************************************************)
(* merge_from_worktree                                                     *)
(***************************************************************************)
\* the scan of the porcelain listing for the branch of abs_path; "" is None
RECURSIVE ScanPorcelain(_, _, _)
ScanPorcelain(lines, current_worktree, p) ==
    IF Len(lines) = 0 THEN ""
    ELSE LET line == Head(lines) IN
         IF StartsWith(line, "worktree ")
         THEN ScanPorcelain(Tail(lines),
                            Strip(Replace(line, "worktree ", "")), p)
         ELSE IF StartsWith(line, "branch ") /\ current_worktree = p
         THEN LET b == Strip(Replace(line, "branch ", ""))
              IN IF StartsWith(b, "refs/heads/")
                 THEN SubSeq(b, Len("refs/heads/") + 1, Len(b))
                 ELSE b
         ELSE ScanPorcelain(Tail(lines), current_worktree, p)

\* faulty variant: the exit status is tested instead of the output
IsDirtyByStatus(status_result) == status_result.rc # 0

\* `if status_result.stdout.strip()`
IsDirty(status_result) == Strip(status_result.stdout) # ""

\* `worktree_branch not in branch_check.stdout`, negated
BranchFound(branch, branch_check) == Contains(branch_check.stdout, branch)

\* faulty variant: the override is ignored and the current branch always queried
TargetNeverGiven(t) == FALSE

\* `if not target_branch`, negated
TargetGiven(t) == t # ""

\* faulty variant: only an explicit --into is compared
SameAsOverride(wb, tb) == wb = args.target_branch

\* `if worktree_branch == target_branch`
SameBranch(wb, tb) == wb = tb

\* lines 273-279: the same-branch check that follows target resolution
MergeCheckSame(tb) ==
    IF SameBranch(worktree_branch, tb)
    THEN Fail(<<"Error: Worktree branch is the same as target branch">>)
    ELSE Goto("merge_fetch", <<"Merging changes from worktree branch into target...">>)

MergeIsGitRepo ==
    /\ pc = "merge"
    /\ \E r \in RepoCheckResults :
         /\ RunGit("rev-parse", <<"rev-parse", "--is-inside-work-tree">>,
                   "is_git_repo", r)
         /\ IF r.rc # 0
            THEN /\ Fail(<<"Error: Not in a git repository">>)
                 /\ abs_path' = abs_path
            ELSE /\ abs_path' = abspath(args.path)
                 /\ IF ~exists(abs_path')
                    THEN Fail(<<"Error: Worktree path does not exist">>)
                    ELSE Goto("merge_worktree_list", <<>>)
    /\ UNCHANGED <<procVars, worktree_branch, target_branch, path, gitTruth,
                   fsVars>>

MergeWorktreeList ==
    /\ pc = "merge_worktree_list"
    /\ \E reg \in Registries, ok \in BOOLEAN :
         LET r == IF ok THEN Result(0, Porcelain(reg)) ELSE Result(128, "")
         IN /\ git_worktrees' = reg
            /\ RunGit("worktree list",
                      <<"worktree", "list", "--porcelain">>, "worktree_list", r)
            /\ worktree_branch' =
                 ScanPorcelain(Split(r.stdout, "\n"), "", abs_path)
            /\ IF worktree_branch' = ""
               THEN Fail(<<"Error: Could not determine branch for worktree">>)
               ELSE Goto("merge_status", <<>>)
    /\ UNCHANGED <<procVars, abs_path, target_branch, path, git_branches,
                   fsVars>>

MergeStatus ==
    /\ pc = "merge_status"
    /\ \E r \in StatusResults :
         /\ RunGit("status",
                   <<"--git-dir", join(abs_path, ".git"), "--work-tree",
                     abs_path, "status", "--porcelain">>, "status_result", r)
         /\ IF IsDirty(r)
            THEN Fail(<<"Error: Worktree branch has uncommitted changes:",
                        r.stdout,
                        "Please commit or stash your changes in the worktree first.">>)
            ELSE Goto("merge_branch_check", <<>>)
    /\ UNCHANGED <<procVars, mergeLocals, path, gitTruth, fsVars>>

MergeBranchCheck ==
    /\ pc = "merge_branch_check"
    /\ \E names \in BranchSets, ok \in BOOLEAN :
         LET r == IF ok THEN Result(0, BranchLines(names, 1))
                  ELSE Result(128, "")
         IN /\ git_branches' = names
            /\ RunGit("branch -a", <<"branch", "-a">>, "branch_check", r)
            /\ IF ~BranchFound(worktree_branch, r)
               THEN /\ Fail(<<"Error: Branch not found. Have you made any commits in the worktree?">>)
                    /\ target_branch' = target_branch
               ELSE IF TargetGiven(args.target_branch)
               THEN /\ target_branch' = args.target_branch
                    /\ MergeCheckSame(args.target_branch)
               ELSE /\ target_branch' = target_branch
                    /\ Goto("merge_show_current", <<>>)
    /\ UNCHANGED <<procVars, abs_path, worktree_branch, path, git_worktrees,
                   fsVars>>

MergeShowCurrent ==
    /\ pc = "merge_show_current"
    /\ \E r \in ShowCurrentResults :
         /\ RunGit("branch --show-current", <<"branch", "--show-current">>,
                   "target_branch_result", r)
         /\ target_branch' = Strip(r.stdout)
         /\ IF ~TargetGiven(target_branch')
            THEN Fail(<<"Error: Could not determine current branch and no target branch specified">>)
            ELSE MergeCheckSame(target_branch')
    /\ UNCHANGED <<procVars, abs_path, worktree_branch, path, gitTruth, fsVars>>

\* faulty variant: a fetch that fails ends the call, as the other steps do
MergeFetchAborting ==
    /\ pc = "merge_fetch"
    /\ \E r \in FetchResults :
         /\ RunGit("fetch", <<"fetch", "origin", target_branch>>,
                   "fetch_result", r)
         /\ IF r.raised \/ r.rc # 0
            THEN Fail(<<"Error: Could not fetch from remote">>)
            ELSE Goto("merge_checkout",
                      <<"Fetched latest changes for target branch from remote">>)
    /\ UNCHANGED <<procVars, mergeLocals, path, gitTruth, fsVars>>

\* the try/except around the fetch: only an exception takes the except arm
MergeFetch ==
    /\ pc = "merge_fetch"
    /\ \E r \in FetchResults :
         /\ RunGit("fetch", <<"fetch", "origin", target_branch>>,
                   "fetch_result", r)
         /\ IF r.raised
            THEN Goto("merge_checkout",
                      <<"Note: Could not fetch from remote - continuing with local merge">>)
            ELSE Goto("merge_checkout",
                      <<"Fetched latest changes for target branch from remote">>)
    /\ UNCHANGED <<procVars, mergeLocals, path, gitTruth, fsVars>>

\* faulty variant: the merge follows the checkout whatever its exit status
MergeCheckoutUnchecked ==
    /\ pc = "merge_checkout"
    /\ \E r \in CheckoutResults :
         /\ RunGit("checkout", <<"checkout", target_branch>>,
                   "checkout_result", r)
         /\ Goto("merge_merge", <<"Merging local branch...">>)
    /\ UNCHANGED <<procVars, mergeLocals, path, gitTruth, fsVars>>

MergeCheckout ==
    /\ pc = "merge_checkout"
    /\ \E r \in CheckoutResults :
         /\ RunGit("checkout", <<"checkout", target_branch>>,
                   "checkout_result", r)
         /\ IF r.rc # 0
            THEN Fail(Inherited(r)
                      \o <<"Error: Failed to checkout target branch">>)
            ELSE Goto("merge_merge", <<"Merging local branch...">>)
    /\ UNCHANGED <<procVars, mergeLocals, path, gitTruth, fsVars>>

\* faulty variant: the exit status of the merge is not looked at
MergeMergeUnchecked ==
    /\ pc = "merge_merge"
    /\ \E r \in MergeResults :
         /\ RunGit("merge", <<"merge", worktree_branch>>, "merge_result", r)
         /\ IF Contains(r.stdout, "Already up to date")
            THEN Return(<<"No changes to merge.">>)
            ELSE Goto("merge_log", <<"Successfully merged", "Merge summary:">>)
    /\ UNCHANGED <<procVars, mergeLocals, path, gitTruth, fsVars>>

MergeMerge ==
    /\ pc = "merge_merge"
    /\ \E r \in MergeResults :
         /\ RunGit("merge", <<"merge", worktree_branch>>, "merge_result", r)
         /\ IF r.rc # 0
            THEN Fail(<<"Merge conflicts detected. Please resolve conflicts and complete the merge manually.",
                        "You can run: git status",
                        "Once conflicts are resolved: git add <resolved-files> && git merge --continue">>)
            ELSE IF Contains(r.stdout, "Already up to date")
            THEN Return(<<"No changes to merge.">>)
            ELSE Goto("merge_log", <<"Successfully merged", "Merge summary:">>)
    /\ UNCHANGED <<procVars, mergeLocals, path, gitTruth, fsVars>>

MergeLog ==
    /\ pc = "merge_log"
    /\ \E r \in LogResults :
         /\ RunGit("log", <<"log", "-1", "--stat">>, "summary", r)
         /\ Return(<<r.stdout>>)
    /\ UNCHANGED <<procVars, mergeLocals, path, gitTruth, fsVars>>

MergeFromWorktree ==
    \/ MergeIsGitRepo
    \/ MergeWorktreeList
    \/ MergeStatus
    \/ MergeBranchCheck
    \/ MergeShowCurrent
    \/ MergeFetch
    \/ MergeCheckout
    \/ MergeMerge
    \/ MergeLog

(***************************************************************************)
(* add_worktree and _ensure_worktree_location                              *)
(***************************************************************************)
\* git rev-parse --show-toplevel
ShowToplevelResults == {Result(0, "/r\n"), Result(128, "")}

\* git worktree add, output not captured
WorktreeAddResults == {Result(0, ""), Result(128, "")}

\* the configured location, made absolute on the repository root
Location(repo_root) ==
    IF isabs(config.worktree_location) THEN config.worktree_location
    ELSE join(repo_root, config.worktree_location)

\* os.makedirs(d, exist_ok=True)
MakeDirs(d) == IF exists(d) THEN dirs ELSE dirs \cup {d}

\* faulty variant: the location is appended without looking at the lines
EnsureIgnoredAlways(ignore, relative_location) ==
    IF ignore.exists
    THEN [exists |-> TRUE,
          content |-> ignore.content \o "\n# GWTM worktrees\n"
                      \o relative_location \o "\n"]
    ELSE [exists |-> TRUE,
          content |-> "# GWTM worktrees\n" \o relative_location \o "\n"]

\* lines 102-120: the ignore file after the location has been recorded
EnsureIgnored(ignore, relative_location) ==
    IF ignore.exists
    THEN IF \E k \in DOMAIN Split(ignore.content, "\n") :
               Split(ignore.content, "\n")[k] = relative_location
         THEN ignore
         ELSE [exists |-> TRUE,
               content |-> ignore.content \o "\n# GWTM worktrees\n"
                           \o relative_location \o "\n"]
    ELSE [exists |-> TRUE,
          content |-> "# GWTM worktrees\n" \o relative_location \o "\n"]

\* faulty variant: a relative path is left to git, which resolves it on the cwd
NeedsDefaultLocationNoPathOnly(a) == a.path = ""

\* lines 131-144: whether the path comes from the default location
NeedsDefaultLocation(a) == a.path = "" \/ ~isabs(a.path)

\* lines 138 and 143: the path under the default location
PathUnderLocation(base_location, a) ==
    IF a.path = "" THEN join(base_location, a.branch)
    ELSE join(base_location, a.path)

\* faulty variant: the new-branch flag is dropped
AddArgvExisting(p, branch, new_branch) ==
    IF branch # "" THEN <<"worktree", "add", p, branch>>
    ELSE <<"worktree", "add", p>>

\* lines 146-162: the argument vector of the add invocation
AddArgv(p, branch, new_branch) ==
    IF new_branch /\ branch # "" THEN <<"worktree", "add", "-b", branch, p>>
    ELSE IF branch # "" THEN <<"worktree", "add", p, branch>>
    ELSE <<"worktree", "add", p>>

AddIsGitRepo ==
    /\ pc = "add"
    /\ \E r \in RepoCheckResults :
         /\ RunGit("rev-parse", <<"rev-parse", "--is-inside-work-tree">>,
                   "is_git_repo", r)
         /\ IF r.rc # 0
            THEN Fail(<<"Error: Not in a git repository">>) /\ path' = path
            ELSE IF args.path = "" /\ args.branch = ""
            THEN /\ Fail(<<"Error: Either path or branch must be specified">>)
                 /\ path' = path
            ELSE IF NeedsDefaultLocation(args)
            THEN Goto("ensure_is_git_repo", <<>>) /\ path' = path
            ELSE Goto("add_run", <<>>) /\ path' = args.path
    /\ UNCHANGED <<procVars, mergeLocals, gitTruth, fsVars>>

\* _get_repo_root, first invocation
EnsureIsGitRepo ==
    /\ pc = "ensure_is_git_repo"
    /\ \E r \in RepoCheckResults :
         /\ RunGit("rev-parse", <<"rev-parse", "--is-inside-work-tree">>,
                   "is_git_repo", r)
         /\ IF r.rc # 0
            THEN Fail(<<"Error: Not in a git repository">>)
            ELSE Goto("ensure_show_toplevel", <<>>)
    /\ UNCHANGED <<procVars, mergeLocals, path, gitTruth, fsVars>>

\* _get_repo_root, second invocation, and the rest of
\* _ensure_worktree_location; back in add_worktree the path is joined
EnsureShowToplevel ==
    /\ pc = "ensure_show_toplevel"
    /\ \E r \in ShowToplevelResults :
         /\ RunGit("rev-parse", <<"rev-parse", "--show-toplevel">>,
                   "show_toplevel", r)
         /\ LET repo_root == IF r.rc = 0 THEN Strip(r.stdout) ELSE ""
                location == Location(repo_root)
            IN IF repo_root = ""
               THEN /\ Fail(<<"Error: Not in a git repository">>)
                    /\ UNCHANGED <<path, fsVars>>
               ELSE /\ dirs' = MakeDirs(location)
                    /\ gitignore' =
                         EnsureIgnored(gitignore, relpath(location, repo_root))
                    /\ ensured' = Append(ensured, relpath(location, repo_root))
                    /\ config_files' = config_files
                    /\ path' = PathUnderLocation(location, args)
                    /\ Goto("add_run",
                            <<IF args.path = "" THEN "Using default path: "
                              ELSE "Using path within default worktree location: ">>)
    /\ UNCHANGED <<procVars, mergeLocals, gitTruth>>

AddRunGit ==
    /\ pc = "add_run"
    /\ dirs' = MakeDirs(dirname(abspath(path)))
    /\ \E r \in WorktreeAddResults :
         /\ RunGit("worktree add",
                   AddArgv(path, args.branch, args.new_branch), "result", r)
         /\ IF r.rc = 0
            THEN Return(<<"Worktree created at ">>)
            ELSE Fail(Inherited(r) \o <<"Failed to create worktree">>)
    /\ UNCHANGED <<procVars, mergeLocals, path, gitTruth, gitignore, ensured,
                   config_files>>

AddWorktree ==
    \/ AddIsGitRepo
    \/ EnsureIsGitRepo
    \/ EnsureShowToplevel
    \/ AddRunGit

(***************************************************************************)
(* list_worktrees                                                          *)
(***************************************************************************)
\* git worktree list: one line per worktree (path, abbreviated commit, branch
\* in brackets); the code takes any text, so lines of other shapes are drawn
\* as well
ListingLines ==
    {"/r  0a [m]", "/r/w [f]", " /r/w\t[[f]", "/r/v", ""}

RECURSIVE ListingSeqs(_)
ListingSeqs(n) ==
    IF n = 0 THEN {<<>>}
    ELSE LET prev == ListingSeqs(n - 1)
         IN prev \cup
            { Append(x[1], x[2]) :
                x \in { y \in prev \X ListingLines : Len(y[1]) = n - 1 } }

\* the listing as git writes it: every line ended by a newline
RECURSIVE ListingText(_)
ListingText(lines) ==
    IF Len(lines) = 0 THEN ""
    ELSE Head(lines) \o "\n" \o ListingText(Tail(lines))

WorktreeListPlainResults ==
    { Result(0, ListingText(l)) : l \in ListingSeqs(MaxLines) }
        \cup {Result(128, "")}

Digits == "0123456789"

RECURSIVE ToStr(_)
ToStr(n) ==
    IF n < 10 THEN Char(Digits, n + 1)
    ELSE ToStr(n \div 10) \o Char(Digits, (n % 10) + 1)

\* faulty variant: the second token is printed as it stands
ListEntryRaw(parts, i) ==
    IF Len(parts) >= 2
    THEN <<ToStr(i) \o ". " \o parts[1] \o " - " \o parts[2]>>
    ELSE <<>>

\* lines 186-190: the entry printed for the i-th line, if any
ListEntry(parts, i) ==
    IF Len(parts) >= 2
    THEN <<ToStr(i) \o ". " \o parts[1] \o " - "
           \o StripChars(parts[2], "[]")>>
    ELSE <<>>

\* line 185: the entries printed for the lines from the i-th on
RECURSIVE ListEntries(_, _)
ListEntries(worktrees, i) ==
    IF i > Len(worktrees) THEN <<>>
    ELSE ListEntry(SplitWs(worktrees[i]), i) \o ListEntries(worktrees, i + 1)

ListIsGitRepo ==
    /\ pc = "list"
    /\ \E r \in RepoCheckResults :
         /\ RunGit("rev-parse", <<"rev-parse", "--is-inside-work-tree">>,
                   "is_git_repo", r)
         /\ IF r.rc # 0
            THEN Fail(<<"Error: Not in a git repository">>)
            ELSE Goto("list_run", <<>>)
    /\ UNCHANGED <<procVars, mergeLocals, path, gitTruth, fsVars>>

ListRunGit ==
    /\ pc = "list_run"
    /\ \E r \in WorktreeListPlainResults :
         /\ RunGit("worktree list", <<"worktree", "list">>, "result", r)
         /\ IF r.rc = 0
            THEN Return(<<"Git Worktrees:">>
                        \o ListEntries(Split(Strip(r.stdout), "\n"), 1)
                        \o <<"====">>)
            ELSE Return(<<"Error listing worktrees", r.stderr>>)
    /\ UNCHANGED <<procVars, mergeLocals, path, gitTruth, fsVars>>

ListWorktrees ==
    \/ ListIsGitRepo
    \/ ListRunGit

(***************************************************************************)
(* remove_worktree                                                         *)
(***************************************************************************)
\* git worktree remove <path>
WorktreeRemoveResults == {Result(0, ""), Result(128, "")}

\* git worktree prune
WorktreePruneResults == {Result(0, ""), Result(1, "")}

\* faulty variant: the flag is passed on without negation
PruneInverted(a) == a.no_prune

\* main(): remove_worktree(args.path, not args.no_prune)
Prune(a) == ~a.no_prune

RemoveIsGitRepo ==
    /\ pc = "remove"
    /\ \E r \in RepoCheckResults :
         /\ RunGit("rev-parse", <<"rev-parse", "--is-inside-work-tree">>,
                   "is_git_repo", r)
         /\ IF r.rc # 0
            THEN Fail(<<"Error: Not in a git repository">>)
            ELSE Goto("remove_run", <<>>)
    /\ UNCHANGED <<procVars, mergeLocals, path, gitTruth, fsVars>>

RemoveRunGit ==
    /\ pc = "remove_run"
    /\ \E r \in WorktreeRemoveResults :
         /\ RunGit("worktree remove", <<"worktree", "remove", args.path>>,
                   "result", r)
         /\ IF r.rc = 0
            THEN IF Prune(args)
                 THEN Goto("remove_prune", <<"Worktree removed">>)
                 ELSE Return(<<"Worktree removed">>)
            ELSE Return(<<"Error removing worktree: " \o r.stderr>>)
    /\ UNCHANGED <<procVars, mergeLocals, path, gitTruth, fsVars>>

RemovePrune ==
    /\ pc = "remove_prune"
    /\ \E r \in WorktreePruneResults :
         /\ RunGit("worktree prune", <<"worktree", "prune">>,
                   "prune_result", r)
         /\ IF r.rc = 0
            THEN Return(<<"Pruned stale worktree data">>)
            ELSE Return(<<>>)
    /\ UNCHANGED <<procVars, mergeLocals, path, gitTruth, fsVars>>

RemoveWorktree ==
    \/ RemoveIsGitRepo
    \/ RemoveRunGit
    \/ RemovePrune

(***************************************************************************)
(* switch_worktree, open_ide, and main() without a verb                    *)
(***************************************************************************)
SwitchWorktree ==
    /\ pc = "switch"
    /\ abs_path' = abspath(args.path)
    /\ IF ~exists(abs_path')
       THEN Fail(<<"Error: Worktree path does not exist">>)
       ELSE Return(<<"To switch to the worktree, run:", "cd " \o abs_path'>>)
    /\ UNCHANGED <<procVars, calls, results, worktree_branch, target_branch,
                   path, gitTruth, fsVars>>

\* IDEHandler.get_supported_ides
SupportedIdes == {"xcode", "androidstudio"}

Upper == "ABCDEFGHIJKLMNOPQRSTUVWXYZ"
Lower == "abcdefghijklmnopqrstuvwxyz"

\* str.lower
RECURSIVE lower(_)
lower(s) ==
    IF Len(s) = 0 THEN ""
    ELSE LET k == Find(Upper, Char(s, 1), 1)
         IN (IF k = 0 THEN Char(s, 1) ELSE Char(Lower, k)) \o lower(Tail(s))

\* lines 331-334: the IDE asked for, or the configured default
ChosenIde(a) == lower(IF a.ide = "" THEN config.ide ELSE a.ide)

\* open_ide; what IDEHandler.open_in_ide returns depends on the platform and
\* on the files under the path, and is drawn here
OpenIde ==
    /\ pc = "open"
    /\ abs_path' = abspath(args.path)
    /\ IF ~exists(abs_path')
       THEN Fail(<<"Error: Worktree path does not exist">>)
       ELSE IF ChosenIde(args) \notin SupportedIdes
       THEN Fail(<<"Error: Unsupported IDE">>)
       ELSE \E success \in BOOLEAN :
              IF success THEN Return(<<>>)
              ELSE Fail(<<"Failed to open in IDE">>)
    /\ UNCHANGED <<procVars, calls, results, worktree_branch, target_branch,
                   path, gitTruth, fsVars>>

\* main() with no verb: parser.print_help()
PrintHelp ==
    /\ pc = "help"
    /\ Return(<<"usage: gwtm">>)
    /\ UNCHANGED <<procVars, calls, results, mergeLocals, path, gitTruth,
                   fsVars>>

Next ==
    \/ Main
    \/ AddWorktree
    \/ ListWorktrees
    \/ RemoveWorktree
    \/ SwitchWorktree
    \/ OpenIde
    \/ MergeFromWorktree
    \/ PrintHelp

Spec == Init /\ [][Next]_vars

(***************************************************************************)
(* The start of a run alone, on every file system of configuration files.  *)
(***************************************************************************)
InitConfig == Idle /\ config_files \in FileSystems

StartAnywhere == Start(AnyConfigPaths)

NextConfig == StartAnywhere

SpecConfig == InitConfig /\ [][NextConfig]_vars

(***************************************************************************)
(* Vocabulary of the properties.                                           *)
(***************************************************************************)
Issued(cmd) == \E i \in DOMAIN calls : calls[i].cmd = cmd

Has(local) == local \in DOMAIN results

Printed(msg) == \E i \in DOMAIN printed : printed[i] = msg

\* no fetch, checkout or merge invocation has been issued in this run
NoMergeWork == ~Issued("fetch") /\ ~Issued("checkout") /\ ~Issued("merge")

\* the run has ended in an error
EndedInError == pc = "done" /\ exitCode # 0

InMerge == args.command = "merge" /\ pc # "idle"

\* the run printed an error report
ReportedError ==
    \E i \in DOMAIN printed :
        \/ StartsWith(printed[i], "Error")
        \/ StartsWith(printed[i], "Failed to")
        \/ StartsWith(printed[i], "Merge conflicts detected")

(***************************************************************************)
(* C1.  In merge, whenever the status query run inside the worktree        *)
(* returns non-empty output, the run ends in an error (non-zero exit) and  *)
(* no fetch, checkout or merge is ever issued in it.                       *)
(***************************************************************************)
DirtyReported ==
    InMerge /\ Has("status_result") /\ results["status_result"].stdout # ""

InvC1_DirtyRefused == DirtyReported => (EndedInError /\ NoMergeWork)

WitC1_DirtyRefused ==
    /\ DirtyReported
    /\ EndedInError
    /\ Printed("Error: Worktree branch has uncommitted changes:")

(***************************************************************************)
(* C2.  In merge, whenever the resolved worktree branch equals the target  *)
(* branch -- given with --into, or inferred from the current branch -- no  *)
(* fetch, checkout or merge is issued and the run ends in an error.        *)
(***************************************************************************)
\* the target as the command line and git give it: "" while not yet known
TargetOfRun ==
    IF args.target_branch # "" THEN args.target_branch
    ELSE IF Has("target_branch_result")
         THEN LET out == results["target_branch_result"].stdout
              IN IF EndsWith(out, "\n") THEN SubSeq(out, 1, Len(out) - 1)
                 ELSE out
         ELSE ""

InvC2_SameBranchRefused ==
    (InMerge /\ worktree_branch # "" /\ TargetOfRun = worktree_branch)
        => (NoMergeWork /\ (pc = "done" => exitCode # 0))

\* the inferred case, refused by the same-branch check itself
WitC2_SameBranchInferred ==
    /\ InMerge
    /\ args.target_branch = ""
    /\ worktree_branch # ""
    /\ TargetOfRun = worktree_branch
    /\ EndedInError
    /\ Printed("Error: Worktree branch is the same as target branch")

\* the explicit case, refused by the same-branch check itself
SameBranchExplicitRefused ==
    /\ InMerge
    /\ args.target_branch # ""
    /\ args.target_branch = worktree_branch
    /\ EndedInError
    /\ Printed("Error: Worktree branch is the same as target branch")

(***************************************************************************)
(* C3.  For every verb the exit status is non-zero if and only if the run  *)
(* reported an error; in particular a remove or a list whose invocation    *)
(* exits non-zero ends with a non-zero exit.                               *)
(***************************************************************************)
InvC3_ExitIffError == pc = "done" => (exitCode # 0 <=> ReportedError)

(***************************************************************************)
(* C4.  In remove, prune is issued exactly when the removal exited zero    *)
(* and the prune flag is set (--no-prune absent); never after a failed     *)
(* removal, and always after the removal, never before it.                 *)
(***************************************************************************)
InRemove == args.command = "remove" /\ pc # "idle"

RemovalSucceeded == Has("result") /\ results["result"].rc = 0

InvC4_PruneAfterRemoval ==
    InRemove =>
        /\ Issued("worktree prune") =>
             /\ RemovalSucceeded
             /\ ~args.no_prune
             /\ \A i, j \in DOMAIN calls :
                  (calls[i].cmd = "worktree remove"
                     /\ calls[j].cmd = "worktree prune") => i < j
             /\ Cardinality({i \in DOMAIN calls :
                               calls[i].cmd = "worktree prune"}) = 1
        /\ (pc = "done" /\ RemovalSucceeded /\ ~args.no_prune)
              => Issued("worktree prune")

WitC4_PruneAfterRemoval ==
    /\ InRemove
    /\ pc = "done"
    /\ RemovalSucceeded
    /\ Issued("worktree prune")

\* the other side: a failed removal with the prune flag set
RemovalFailedNoPrune ==
    /\ InRemove
    /\ pc = "done"
    /\ Has("result") /\ results["result"].rc # 0
    /\ ~args.no_prune

(***************************************************************************)
(* C5.  In merge, for every porcelain listing the resolved worktree branch *)
(* is the branch of the block whose path equals the normalized input path; *)
(* if no block has that path, or that block is detached, the run fails     *)
(* with a branch-resolution error and never takes another block's branch.  *)
(***************************************************************************)
\* the branch git has registered for the worktree at p; "" if p is not a
\* registered worktree or is detached
RegisteredBranch(reg, p) ==
    IF \E i \in DOMAIN reg : reg[i].path = p
    THEN reg[CHOOSE i \in DOMAIN reg : reg[i].path = p].branch
    ELSE ""

Listed == InMerge /\ Has("worktree_list") /\ results["worktree_list"].rc = 0

InvC5_BranchOfMatchingBlock ==
    Listed =>
        /\ worktree_branch = RegisteredBranch(git_worktrees, abs_path)
        /\ worktree_branch = "" =>
             /\ EndedInError
             /\ Printed("Error: Could not determine branch for worktree")

(***************************************************************************)
(* C6.  In merge, if the resolved worktree branch is not one of the names  *)
(* the all-branches query lists, the run fails with a branch-not-found     *)
(* error and issues no fetch, checkout or merge -- also when a listed name *)
(* merely contains the worktree branch as a substring.                     *)
(***************************************************************************)
BranchNotListed ==
    /\ InMerge
    /\ Has("branch_check")
    /\ worktree_branch \notin
         (IF results["branch_check"].rc = 0 THEN git_branches ELSE {})

InvC6_UnlistedBranchRefused ==
    BranchNotListed =>
        /\ EndedInError
        /\ NoMergeWork
        /\ Printed("Error: Branch not found. Have you made any commits in the worktree?")

(***************************************************************************)
(* C7.  In merge, the target branch is the override when one is given, and *)
(* the current-branch query is then not issued; otherwise it is the        *)
(* current branch the query reports, and if that is empty (detached HEAD)  *)
(* the run fails and issues no fetch, checkout or merge.                   *)
(***************************************************************************)
\* every fetch and checkout of the run names the branch b
TargetsOnly(b) ==
    \A i \in DOMAIN calls :
        /\ calls[i].cmd = "checkout" => calls[i].argv = <<"checkout", b>>
        /\ calls[i].cmd = "fetch" => calls[i].argv = <<"fetch", "origin", b>>

InvC7_TargetResolution ==
    InMerge =>
        IF args.target_branch # ""
        THEN /\ ~Issued("branch --show-current")
             /\ TargetsOnly(args.target_branch)
        ELSE /\ ~NoMergeWork => Has("target_branch_result")
             /\ Has("target_branch_result") =>
                  IF results["target_branch_result"].stdout = ""
                  THEN EndedInError /\ NoMergeWork
                  ELSE /\ target_branch \o "\n"
                            = results["target_branch_result"].stdout
                       /\ TargetsOnly(target_branch)

WitC7_TargetInferred ==
    /\ InMerge
    /\ args.target_branch = ""
    /\ Has("target_branch_result")
    /\ Issued("checkout")
    /\ target_branch = "m"

\* the other cases: an override given, and a detached HEAD without one
TargetOverridden ==
    InMerge /\ args.target_branch = "m" /\ Issued("checkout")

TargetUndetermined ==
    /\ InMerge
    /\ args.target_branch = ""
    /\ Has("target_branch_result")
    /\ results["target_branch_result"].stdout = ""
    /\ EndedInError

(***************************************************************************)
(* C8.  In merge, once the fetch has been attempted (steps 1-6 passed),    *)
(* the checkout is invoked whatever the fetch did -- exit zero, exit       *)
(* non-zero or an exception: the run cannot end without it.                *)
(***************************************************************************)
InvC8_FetchNeverAborts ==
    (InMerge /\ Has("fetch_result"))
        => (Issued("checkout") \/ (pc = "merge_checkout" /\ exitCode = -1))

WitC8_CheckoutAfterFailedFetch ==
    /\ InMerge
    /\ Has("fetch_result")
    /\ results["fetch_result"].raised
    /\ Issued("checkout")

\* the same after a fetch that exited non-zero
CheckoutAfterNonZeroFetch ==
    /\ InMerge
    /\ Has("fetch_result")
    /\ results["fetch_result"].rc = 128
    /\ Issued("checkout")

(***************************************************************************)
(* C9.  In merge, when the merge invocation exits non-zero the run reports *)
(* a merge conflict, exits non-zero and issues no invocation after the     *)
(* merge (no abort, reset, checkout back, or log).                         *)
(***************************************************************************)
MergeFailed ==
    InMerge /\ Has("merge_result") /\ results["merge_result"].rc # 0

InvC9_ConflictLeftAlone ==
    MergeFailed =>
        /\ EndedInError
        /\ Printed("Merge conflicts detected. Please resolve conflicts and complete the merge manually.")
        /\ calls[Len(calls)].cmd = "merge"

WitC9_ConflictLeftAlone == MergeFailed /\ pc = "done"

(***************************************************************************)
(* C10.  The path add hands to git is <defaultRoot>/<branch> when no path  *)
(* is given, <defaultRoot>/<path> when the path is relative (never         *)
(* cwd/<path>), and the path itself when it is absolute; with neither path *)
(* nor branch the run fails without creating the default root or writing   *)
(* the ignore file.                                                        *)
(***************************************************************************)
InAdd == args.command = "add" /\ pc # "idle"

\* <defaultRoot>: the configured location, under the repository root /r
\* unless it is absolute
DefaultRoot ==
    IF Char(config.worktree_location, 1) = "/" THEN config.worktree_location
    ELSE "/r/" \o config.worktree_location

ExpectedAddPath ==
    IF args.path = "" THEN DefaultRoot \o "/" \o args.branch
    ELSE IF Char(args.path, 1) # "/" THEN DefaultRoot \o "/" \o args.path
    ELSE args.path

\* the path operand of a `worktree add` argument vector
PathOperand(argv) == IF argv[3] = "-b" THEN argv[5] ELSE argv[3]

AddPathAsSpecified ==
    InAdd =>
        /\ \A i \in DOMAIN calls :
             calls[i].cmd = "worktree add"
                => PathOperand(calls[i].argv) = ExpectedAddPath
        /\ (args.path = "" /\ args.branch = "" /\ pc = "done")
              => (exitCode # 0 /\ ~Issued("worktree add"))

\* a run of add with neither path nor branch leaves the filesystem alone
AddNothingTouchesNothing ==
    (InAdd /\ args.path = "" /\ args.branch = "" /\ pc # "done")
        => UNCHANGED fsVars

ThmC10_AddPath == []AddPathAsSpecified /\ [][AddNothingTouchesNothing]_vars

WitC10_RelativeUnderRoot ==
    /\ InAdd
    /\ args.path = "w"
    /\ Issued("worktree add")
    /\ path = DefaultRoot \o "/w"
    /\ DefaultRoot \in dirs

\* the other cases: no path with a branch, an absolute path, and neither
AddDefaultPath ==
    InAdd /\ args.path = "" /\ args.branch = "f" /\ Issued("worktree add")

AddAbsolutePath ==
    InAdd /\ args.path = "/r/v" /\ Issued("worktree add")

AddNothingGiven ==
    InAdd /\ args.path = "" /\ args.branch = "" /\ pc = "done"

(***************************************************************************)
(* C11.  Ensuring the default root is idempotent on the ignore file: from  *)
(* an absent file or any content, after any number of calls the root's     *)
(* repo-relative path is a line of the file as many times as after the     *)
(* first call -- it is appended at most once, and never when a line equal  *)
(* to it is already there.                                                 *)
(***************************************************************************)
\* how many lines of the ignore file are equal to rel
LineCount(ignore, rel) ==
    IF ~ignore.exists THEN 0
    ELSE LET lines == Split(ignore.content, "\n")
         IN Cardinality({k \in DOMAIN lines : lines[k] = rel})

\* the repo-relative paths of the default roots that can be configured
RelativeLocations == {".gwtm/worktrees", "../t"}

\* a step adds at most one line equal to rel, and none if there is one
AppendsAtMostOnce ==
    gitignore' # gitignore =>
        \A rel \in RelativeLocations :
            LET before == LineCount(gitignore, rel)
                after == LineCount(gitignore', rel)
            IN /\ after \in {before, before + 1}
               /\ before >= 1 => after = before

\* once ensured, the location is a line of the file
EnsuredIsIgnored ==
    \A i \in DOMAIN ensured :
        /\ ensured[i] \in RelativeLocations
        /\ LineCount(gitignore, ensured[i]) >= 1

ThmC11_IgnoreOnce == []EnsuredIsIgnored /\ [][AppendsAtMostOnce]_vars

\* the same root ensured twice, appended by the first call only
WitC11_SecondCallAppendsNothing ==
    /\ Len(ensured) = 2
    /\ ensured[1] = "../t" /\ ensured[2] = "../t"
    /\ gitignore.content =
           "build\n.gwtm/worktrees\n# GWTM worktrees\n../t\n"

\* the user's file already has the line: the first call appends nothing
IgnoredBeforeFirstCall ==
    /\ Len(ensured) = 1
    /\ ensured[1] = ".gwtm/worktrees"
    /\ gitignore.content = "build\n.gwtm/worktrees"

(***************************************************************************)
(* C12.  The create step of add issues exactly one worktree-add invocation *)
(* and its argument vector is fixed by the branch and the new-branch flag: *)
(* no branch: worktree add <path>; a branch without the flag:              *)
(* worktree add <path> <branch>; a branch with the flag:                   *)
(* worktree add -b <branch> <path>.                                        *)
(***************************************************************************)
AddCalls == SelectSeq(calls, LAMBDA c : c.cmd = "worktree add")

\* the create step has been entered: the path is settled
CreateReached == InAdd /\ (pc = "add_run" \/ Has("result"))

ExpectedAddArgv ==
    CASE args.branch = "" -> <<"worktree", "add", path>>
      [] args.branch # "" /\ ~args.new_branch ->
             <<"worktree", "add", path, args.branch>>
      [] args.branch # "" /\ args.new_branch ->
             <<"worktree", "add", "-b", args.branch, path>>

InvC12_AddArgv ==
    InAdd =>
        /\ Len(AddCalls) <= 1
        /\ (CreateReached /\ pc = "done") => Len(AddCalls) = 1
        /\ \A i \in DOMAIN AddCalls : AddCalls[i].argv = ExpectedAddArgv
        /\ (pc = "done" /\ ~CreateReached) => (AddCalls = <<>> /\ exitCode # 0)

WitC12_NewBranchArgv ==
    /\ InAdd /\ pc = "done" /\ Len(AddCalls) = 1
    /\ AddCalls[1].argv = <<"worktree", "add", "-b", "f", "/r/.gwtm/worktrees/f">>

\* the three shapes all occur
AddArgvShapes ==
    /\ InAdd /\ pc = "done" /\ Len(AddCalls) = 1
    /\ AddCalls[1].argv \in {<<"worktree", "add", "/r/v">>,
                             <<"worktree", "add", "/r/v", "f">>}
(***************************************************************************)
(* C13.  For every listing text, list prints one entry per line that has   *)
(* at least two whitespace-delimited tokens, in listing order, with the    *)
(* first token as path and the second token without its surrounding '['    *)
(* and ']' as branch; a line with fewer tokens is skipped without failing  *)
(* the listing, and an empty listing prints no entry.                      *)
(***************************************************************************)
InList == args.command = "list" /\ pc # "idle"

\* what each line of the listing is expected to give: the entry of a line
\* with two tokens or more, nothing for a shorter line
EntryOfLine ==
    ("/r  0a [m]" :> <<[path |-> "/r", branch |-> "0a"]>>)
    @@ ("/r/w [f]" :> <<[path |-> "/r/w", branch |-> "f"]>>)
    @@ (" /r/w\t[[f]" :> <<[path |-> "/r/w", branch |-> "f"]>>)
    @@ ("/r/v" :> <<>>)
    @@ ("" :> <<>>)

RECURSIVE ExpectedEntries(_)
ExpectedEntries(lines) ==
    IF Len(lines) = 0 THEN <<>>
    ELSE EntryOfLine[Head(lines)] \o ExpectedEntries(Tail(lines))

\* the entries of the run's output: what stands between header and footer,
\* without the ordinal
RECURSIVE AfterOrdinal(_)
AfterOrdinal(msg) ==
    IF StartsWith(msg, ". ") THEN SubSeq(msg, 3, Len(msg))
    ELSE AfterOrdinal(Tail(msg))

PrintedEntries ==
    [i \in 1..(Len(printed) - 2) |-> AfterOrdinal(printed[i + 1])]

EntryText(e) == e.path \o " - " \o e.branch

ListedSuccessfully ==
    InList /\ Has("result") /\ results["result"].rc = 0

InvC13_ListEntries ==
    ListedSuccessfully =>
        /\ pc = "done" /\ exitCode = 0
        /\ printed[1] = "Git Worktrees:" /\ printed[Len(printed)] = "===="
        /\ \A l \in ListingSeqs(MaxLines) :
              results["result"].stdout = ListingText(l) =>
                  /\ Len(PrintedEntries) = Len(ExpectedEntries(l))
                  /\ \A i \in DOMAIN PrintedEntries :
                        PrintedEntries[i] = EntryText(ExpectedEntries(l)[i])

\* a short line between two entries is skipped and the order is kept
WitC13_ShortLineSkipped ==
    /\ ListedSuccessfully
    /\ results["result"].stdout = "/r/v\n/r/w [f]\n"
    /\ PrintedEntries = <<"/r/w - f">>

ListEmpty ==
    /\ ListedSuccessfully
    /\ results["result"].stdout = ""
    /\ PrintedEntries = <<>>
(***************************************************************************)
(* C14.  Whenever the invocation of a worktree creation, removal, listing, *)
(* checkout or merge exits non-zero and the run reports an error for it,   *)
(* what the run reports contains the standard-error text of that           *)
(* invocation, unmodified.                                                 *)
(***************************************************************************)
\* the local each of the five invocations is assigned to, by verb
ReportingLocals ==
    CASE args.command = "add" -> {"result"}
      [] args.command = "remove" -> {"result"}
      [] args.command = "list" -> {"result"}
      [] args.command = "merge" -> {"checkout_result", "merge_result"}
      [] OTHER -> {}

ErrorReportedFor(local) ==
    /\ pc = "done"
    /\ Has(local)
    /\ results[local].rc # 0
    /\ ReportedError

CarriesStderr(local) ==
    \E i \in DOMAIN printed : Contains(printed[i], results[local].stderr)

InvC14_ErrorCarriesStderr ==
    \A local \in ReportingLocals :
        ErrorReportedFor(local) => CarriesStderr(local)

\* the cases in which the text does reach the report
StderrCarried ==
    \A local \in ReportingLocals \ {"merge_result"} :
        ErrorReportedFor(local) => CarriesStderr(local)

RemoveCarriesStderr ==
    InRemove /\ ErrorReportedFor("result") /\ CarriesStderr("result")
(***************************************************************************)
(* C15.  Loading the configuration reads exactly one file: the first that  *)
(* exists among the --config path, <cwd>/.gwtmrc and ~/.gwtmrc, in this    *)
(* order, and none if none exists.  Every key that file sets has the       *)
(* file's value and every other key keeps its built-in default             *)
(* (ide=xcode, worktree_location=.gwtm/worktrees, the two IDE paths).      *)
(***************************************************************************)
Started == pc # "idle"

IsFile(p) == p # "" /\ p \in DOMAIN config_files

\* the file that has precedence, "" if there is none
FileOfPrecedence ==
    IF IsFile(args.config) THEN args.config
    ELSE IF IsFile("/r/.gwtmrc") THEN "/r/.gwtmrc"
    ELSE IF IsFile("/h/.gwtmrc") THEN "/h/.gwtmrc"
    ELSE ""

BuiltIn(k) ==
    CASE k = "ide" -> "xcode"
      [] k = "worktree_location" -> ".gwtm/worktrees"
      [] k = "xcode" -> "/Applications/Xcode.app"
      [] k = "androidstudio" -> "/Applications/Android Studio.app"

ConfigKeys == {"ide", "worktree_location", "xcode", "androidstudio"}

InvC15_FirstFileWins ==
    Started =>
        /\ DOMAIN config = ConfigKeys
        /\ IF FileOfPrecedence = ""
           THEN /\ files_read = <<>>
                /\ \A k \in ConfigKeys : config[k] = BuiltIn(k)
           ELSE /\ files_read = <<FileOfPrecedence>>
                /\ \A k \in ConfigKeys :
                      config[k] =
                          IF k \in DOMAIN config_files[FileOfPrecedence]
                          THEN config_files[FileOfPrecedence][k]
                          ELSE BuiltIn(k)

\* --config names no file, both dotfiles exist: the one of the working
\* directory is read, its key set and the other keys at their defaults
WitC15_CwdBeforeHome ==
    /\ Started
    /\ args.config = "/x"
    /\ DOMAIN config_files = {"/r/.gwtmrc", "/h/.gwtmrc"}
    /\ config_files["/r/.gwtmrc"] = [ide |-> "androidstudio"]
    /\ config_files["/h/.gwtmrc"] = [worktree_location |-> "/t", ide |-> "VSCode"]
    /\ files_read = <<"/r/.gwtmrc">>
    /\ config.ide = "androidstudio"
    /\ config.worktree_location = ".gwtm/worktrees"

ConfigExplicitFirst ==
    /\ Started
    /\ args.config = "/c"
    /\ DOMAIN config_files = {"/c", "/r/.gwtmrc", "/h/.gwtmrc"}
    /\ files_read = <<"/c">>

ConfigNoFile ==
    Started /\ config_files = <<>> /\ config = DefaultConfig
(***************************************************************************)
(* C16.  In merge the input path is made absolute on the working directory *)
(* and compared with the listing's paths under one normalization: for      *)
(* every listed worktree that has a branch and every spelling of its       *)
(* directory -- relative, with a trailing separator or dot segments, or     *)
(* through a directory alias -- the lookup finds that worktree's branch.    *)
(***************************************************************************)
\* the directory a spelling denotes, by the file system
DirectoryOf ==
    ("/r/w" :> "/r/w") @@ ("./w/" :> "/r/w") @@ ("/l" :> Symlinks["/l"])

DenotedHasBranch ==
    /\ Listed
    /\ args.path \in DOMAIN DirectoryOf
    /\ RegisteredBranch(git_worktrees, DirectoryOf[args.path]) # ""

InvC16_SpellingsResolve ==
    DenotedHasBranch =>
        worktree_branch = RegisteredBranch(git_worktrees, DirectoryOf[args.path])

\* what does hold: the spellings that differ in text only
TextualSpellingsResolve ==
    (DenotedHasBranch /\ args.path # "/l") =>
        /\ abs_path = DirectoryOf[args.path]
        /\ worktree_branch =
               RegisteredBranch(git_worktrees, DirectoryOf[args.path])

RelativeSpellingResolved ==
    DenotedHasBranch /\ args.path = "./w/" /\ worktree_branch = "f"

AliasNotResolved ==
    DenotedHasBranch /\ args.path = "/l" /\ worktree_branch = ""
(***************************************************************************)
(* C17.  The invocations of a merge run are a prefix of the fixed sequence *)
(* repository check, porcelain listing, status in the worktree,            *)
(* all-branches listing, current-branch query (only without --into),       *)
(* fetch, checkout, merge, log; none is issued twice.  The checkout is     *)
(* issued only when every step before it has been taken and has let the    *)
(* run go on, the merge only after the checkout exited zero, and the log   *)
(* only after the merge exited zero without "Already up to date".          *)
(***************************************************************************)
FixedSequence ==
    <<"rev-parse", "worktree list", "status", "branch -a">>
    \o (IF args.target_branch = "" THEN <<"branch --show-current">> ELSE <<>>)
    \o <<"fetch", "checkout", "merge", "log">>

IsPrefix(a, b) == Len(a) <= Len(b) /\ \A i \in DOMAIN a : a[i] = b[i]

\* steps 1-6 were all taken, in order, and none stopped the run
StepsPassed ==
    /\ \A i \in 1..(Len(FixedSequence) - 3) : calls[i].cmd = FixedSequence[i]
    /\ results["is_git_repo"].rc = 0
    /\ worktree_branch # ""
    /\ Strip(results["status_result"].stdout) = ""
    /\ Contains(results["branch_check"].stdout, worktree_branch)
    /\ target_branch # ""
    /\ target_branch # worktree_branch
    /\ (args.target_branch = "" =>
           target_branch = Strip(results["target_branch_result"].stdout))
    /\ Has("fetch_result")

MergeStopsAfterFailedCheckout ==
    /\ InMerge /\ pc = "done" /\ args.target_branch # ""
    /\ Len(calls) = 6 /\ calls[6].cmd = "checkout"
    /\ results["checkout_result"].rc # 0
(***************************************************************************)
(* C18.  In merge, if the invocation of a query step -- the porcelain      *)
(* listing, the status inside the worktree, the all-branches listing, the  *)
(* current-branch query -- exits non-zero, the run ends in an error and    *)
(* issues no fetch, checkout or merge; a failed status query is never      *)
(* taken for a clean worktree.                                             *)
(***************************************************************************)
QueryLocals ==
    {"worktree_list", "status_result", "branch_check", "target_branch_result"}

QueryFailed(local) == InMerge /\ Has(local) /\ results[local].rc # 0

InvC18_FailedQueryIsTerminal ==
    \A local \in QueryLocals :
        QueryFailed(local) => (EndedInError /\ NoMergeWork)

\* what does hold: the three queries whose empty output stops the run
FailedListingIsTerminal ==
    \A local \in QueryLocals \ {"status_result"} :
        QueryFailed(local) => (EndedInError /\ NoMergeWork)

FailedStatusTakenForClean ==
    QueryFailed("status_result") /\ Issued("merge")

(***************************************************************************)
(* C19.  In merge, when the fetch fails (it exits non-zero, for instance   *)
(* with no remote configured) the failure is reported as a note and the    *)
(* message that the latest changes were fetched is not printed: that       *)
(* message appears only when the fetch exited zero.                        *)
(***************************************************************************)
FetchedMessage == "Fetched latest changes for target branch from remote"

FetchNote == "Note: Could not fetch from remote - continuing with local merge"

FetchDone == InMerge /\ Has("fetch_result")

FetchSucceeded ==
    ~results["fetch_result"].raised /\ results["fetch_result"].rc = 0

InvC19_FetchReport ==
    FetchDone =>
        /\ Printed(FetchedMessage) <=> FetchSucceeded
        /\ ~FetchSucceeded => Printed(FetchNote)

\* what does hold: a fetch that could not be run at all is reported as a note
FetchExceptionNoted ==
    (FetchDone /\ results["fetch_result"].raised) =>
        (Printed(FetchNote) /\ ~Printed(FetchedMessage))

FetchedPrintedAfterFailure ==
    /\ FetchDone
    /\ results["fetch_result"].rc # 0 /\ ~results["fetch_result"].raised
    /\ Printed(FetchedMessage)
====
